---- MODULE Spec2Model ----
(***************************************************************************)
(* Model of the stock market price tracker: the registry of price series,  *)
(* the analytics engines that read it (stock_analysis.py,                  *)
(* stock_portfolio.py, stock_query.py, stock_watchlist.py), the loader     *)
(* that fills it (stock_loader.py) and the menu loop (main.py).            *)
(*                                                                         *)
(* Python values are represented as follows.                               *)
(*   None            -> <<>>          a number x   -> <<x>>   (nullable)   *)
(*   a float result  -> [num, den]    an exact fraction, den > 0           *)
(*   a str           -> a sequence of one-character strings                *)
(*   a list          -> a sequence (index 1 is Python index 0)             *)
(*   a row dict      -> [date, open, high, low, close, volume]             *)
(*                                                                         *)
(* watchlist is the content of watchlist.csv, the list of saved symbols.   *)
(***************************************************************************)
EXTENDS Integers, Sequences, FiniteSets, TLC

VARIABLES registry, pc, call, result, watchlist

vars == <<registry, pc, call, result, watchlist>>

(***************************************************************************)
(* Bounds of the model.                                                    *)
(***************************************************************************)
MaxPerfLen == 3
MaxClose == 2
MaxSmaLen == 5
MaxSmaPrice == 5
MaxSmaPeriod == 3
MaxSigLen == 12
MaxNulls == 1
MaxSumLen == 12
MaxFieldLen == 2
MaxField == 2
MaxQueryLen == 3
MaxQuickLen == 3
MaxFrameLen == 2
MaxRegLen == 2
MaxCsvRows == 3
MaxWatchLen == 2
MaxCrossLen == 13

(***************************************************************************)
(* Python values.                                                          *)
(***************************************************************************)
None == <<>>

Some(x) == <<x>>

IsNone(v) == v = <<>>

Val(v) == v[1]

Rat(n, d) == [num |-> n, den |-> d]

RatEq(a, b) == a.num * b.den = b.num * a.den

RatLT(a, b) == a.num * b.den < b.num * a.den

RatLE(a, b) == a.num * b.den <= b.num * a.den

RatSub(a, b) == Rat(a.num * b.den - b.num * a.den, a.den * b.den)

(***************************************************************************)
(* str.strip() and str.upper() over the characters the model uses.         *)
(***************************************************************************)
RECURSIVE LStrip(_)
LStrip(s) == IF s # <<>> /\ Head(s) = " " THEN LStrip(Tail(s)) ELSE s

RECURSIVE RStrip(_)
RStrip(s) ==
    IF s # <<>> /\ s[Len(s)] = " " THEN RStrip(SubSeq(s, 1, Len(s) - 1)) ELSE s

Strip(s) == RStrip(LStrip(s))

UpperChar(c) == IF c = "a" THEN "A" ELSE IF c = "b" THEN "B" ELSE c

Upper(s) == [i \in 1..Len(s) |-> UpperChar(s[i])]

(***************************************************************************)
(* Rows and series.                                                        *)
(***************************************************************************)
Row(d, o, h, l, c, v) ==
    [date |-> d, open |-> o, high |-> h, low |-> l, close |-> c, volume |-> v]

CloseRow(d, c) == Row(d, None, None, None, c, None)

Dates == {<<"1">>, <<"2">>}

RawDates == Dates \cup {<<" ">> \o d \o <<" ">> : d \in Dates}

Closes == {None} \cup {Some(x) : x \in 0..MaxClose}

StockKey == <<"A">>

RawNames == {<<"A">>, <<" ", "a">>, <<"B">>}

SeqsUpTo(S, n) == UNION {[1..k -> S] : k \in 0..n}

(***************************************************************************)
(* stock_portfolio.track_performance                                       *)
(***************************************************************************)
RECURSIVE FindPrice(_, _, _, _)
FindPrice(data, date, i, price) ==
    IF i > Len(data) THEN price
    ELSE IF data[i].date = date
         THEN FindPrice(data, date, i + 1, data[i].close)
         ELSE FindPrice(data, date, i + 1, price)

\* variant: a zero profit is classified as a loss
PerfStatusStrict(profit) == IF profit > 0 THEN "PROFIT" ELSE "LOSS"

PerfStatus(profit) == IF profit >= 0 THEN "PROFIT" ELSE "LOSS"

PerfResult(outcome, raised, bd, sd, bp, sp, profit, roi, status) ==
    [engine |-> "track_performance", outcome |-> outcome, raised |-> raised,
     buy_date |-> bd, sell_date |-> sd, buy_price |-> bp, sell_price |-> sp,
     profit |-> profit, roi |-> roi, status |-> status]

track_performance(reg, stock_name, buy_input, sell_input) ==
    LET key == Upper(Strip(stock_name))
        buy_date == Strip(buy_input)
        sell_date == Strip(sell_input)
    IN  IF key \notin DOMAIN reg
        THEN PerfResult("SymbolNotFound", "none", None, None, None, None,
                        None, None, "none")
        ELSE
        LET data == reg[key]
            buy_price == FindPrice(data, buy_date, 1, None)
            sell_price == FindPrice(data, sell_date, 1, None)
        IN  IF IsNone(buy_price)
            THEN PerfResult("BuyDateNotFound", "none", buy_date, sell_date,
                            buy_price, sell_price, None, None, "none")
            ELSE IF IsNone(sell_price)
            THEN PerfResult("SellDateNotFound", "none", buy_date, sell_date,
                            buy_price, sell_price, None, None, "none")
            ELSE
            LET profit == Val(sell_price) - Val(buy_price)
            IN  IF Val(buy_price) = 0
                THEN PerfResult("Raised", "ZeroDivisionError", buy_date,
                                sell_date, buy_price, sell_price,
                                Some(profit), None, "none")
                ELSE PerfResult("Report", "none", buy_date, sell_date,
                                buy_price, sell_price, Some(profit),
                                Some(Rat(profit * 100, Val(buy_price))),
                                PerfStatus(profit))

TrackPerformance ==
    /\ pc = "menu"
    /\ \E stock_name \in RawNames, buy_input \in RawDates, sell_input \in RawDates :
        /\ call' = [engine |-> "track_performance", stock_name |-> stock_name,
                    buy_input |-> buy_input, sell_input |-> sell_input]
        /\ result' = track_performance(registry, stock_name, buy_input, sell_input)
    /\ pc' = "done"
    /\ UNCHANGED <<registry, watchlist>>

(***************************************************************************)
(* stock_analysis._calculate_sma.  sum(window) raises TypeError when the   *)
(* window holds a None; the first window that does so ends the call.       *)
(***************************************************************************)
RECURSIVE SumSeq(_)
SumSeq(s) == IF s = <<>> THEN 0 ELSE Val(Head(s)) + SumSeq(Tail(s))

HasNone(s) == \E k \in 1..Len(s) : IsNone(s[k])

SmaWindow(prices, period, i) == SubSeq(prices, i - period + 1 + 1, i + 1)

\* variant: the first full window is still reported as undefined
SmaEntryLate(prices, period, i) ==
    IF i + 1 <= period THEN None
    ELSE Some(Rat(SumSeq(SmaWindow(prices, period, i)), period))

SmaEntry(prices, period, i) ==
    IF i + 1 < period THEN None
    ELSE Some(Rat(SumSeq(SmaWindow(prices, period, i)), period))

SmaRaises(prices, period) ==
    \E i \in 0..(Len(prices) - 1) :
        /\ ~(i + 1 < period)
        /\ HasNone(SmaWindow(prices, period, i))

_calculate_sma(prices, period) ==
    IF SmaRaises(prices, period)
    THEN [raised |-> "TypeError", sma_values |-> <<>>]
    ELSE [raised |-> "none",
          sma_values |-> [k \in 1..Len(prices) |-> SmaEntry(prices, period, k - 1)]]

CalculateSma ==
    /\ pc = "menu"
    /\ \E prices \in SeqsUpTo({None} \cup {Some(x) : x \in 1..MaxSmaPrice}, MaxSmaLen),
          period \in 1..MaxSmaPeriod :
        /\ call' = [engine |-> "_calculate_sma", prices |-> prices,
                    period |-> period]
        /\ result' = [engine |-> "_calculate_sma", outcome |-> "Returned"]
                        @@ _calculate_sma(prices, period)
    /\ pc' = "done"
    /\ UNCHANGED <<registry, watchlist>>

(***************************************************************************)
(* stock_analysis.analyze_buy_sell_signals                                 *)
(***************************************************************************)
short_window == 5

long_window == 10

\* variant: the guard admits a series of exactly long_window records
MinSignalRowsLow == long_window

MinSignalRows == 11

\* variant: the stored order is used as it is
ReverseNot(s) == s

Reverse(s) == [k \in 1..Len(s) |-> s[Len(s) + 1 - k]]

\* variant: the previous averages compared strictly
SignalKindStrict(prev_short, prev_long, curr_short, curr_long) ==
    IF RatLT(prev_short, prev_long) /\ RatLT(curr_long, curr_short)
    THEN "BUY"
    ELSE IF RatLT(prev_long, prev_short) /\ RatLT(curr_short, curr_long)
    THEN "SELL"
    ELSE "none"

SignalKind(prev_short, prev_long, curr_short, curr_long) ==
    IF RatLE(prev_short, prev_long) /\ RatLT(curr_long, curr_short)
    THEN "BUY"
    ELSE IF RatLE(prev_long, prev_short) /\ RatLT(curr_short, curr_long)
    THEN "SELL"
    ELSE "none"

ScanStart == long_window

\* variant: the previous averages are read two days back
PrevIndexTwoBack(i) == i - 2

\* the index of the previous day in the scan
PrevIndex(i) == i - 1

RECURSIVE ScanSignals(_, _, _, _, _, _)
ScanSignals(prices, dates, short_sma, long_sma, i, printed) ==
    IF i >= Len(prices) THEN printed
    ELSE
    LET curr_short == short_sma[i + 1]
        curr_long == long_sma[i + 1]
        prev_short == short_sma[PrevIndex(i) + 1]
        prev_long == long_sma[PrevIndex(i) + 1]
    IN  IF None \in {curr_short, curr_long, prev_short, prev_long}
        THEN ScanSignals(prices, dates, short_sma, long_sma, i + 1, printed)
        ELSE
        LET kind == SignalKind(Val(prev_short), Val(prev_long),
                               Val(curr_short), Val(curr_long))
            line == [kind |-> kind, date |-> dates[i + 1],
                     price |-> prices[i + 1], short_sma |-> curr_short,
                     long_sma |-> curr_long, index |-> i]
        IN  ScanSignals(prices, dates, short_sma, long_sma, i + 1,
                        IF kind = "none" THEN printed ELSE Append(printed, line))

TrendStatus(last_short, last_long) ==
    IF RatLT(last_long, last_short) THEN "BULLISH" ELSE "BEARISH"

SignalResult(outcome, raised, prices, dates, ssma, lsma, signals, status, diff) ==
    [engine |-> "analyze_buy_sell_signals", outcome |-> outcome,
     raised |-> raised, prices |-> prices, dates |-> dates,
     short_sma |-> ssma, long_sma |-> lsma, signals |-> signals,
     status |-> status, diff |-> diff]

analyze_buy_sell_signals(reg, stock_name) ==
    LET key == Upper(Strip(stock_name))
    IN  IF key \notin DOMAIN reg
        THEN SignalResult("SymbolNotFound", "none", <<>>, <<>>, <<>>, <<>>,
                          <<>>, "none", None)
        ELSE
        LET data == reg[key]
            prices == Reverse([k \in 1..Len(data) |-> data[k].close])
            dates == Reverse([k \in 1..Len(data) |-> data[k].date])
        IN  IF Len(prices) < MinSignalRows
            THEN SignalResult("InsufficientHistory", "none", prices, dates,
                              <<>>, <<>>, <<>>, "none", None)
            ELSE
            LET short == _calculate_sma(prices, short_window)
                long == _calculate_sma(prices, long_window)
            IN  IF short.raised # "none"
                THEN SignalResult("Raised", short.raised, prices, dates,
                                  <<>>, <<>>, <<>>, "none", None)
                ELSE IF long.raised # "none"
                THEN SignalResult("Raised", long.raised, prices, dates,
                                  short.sma_values, <<>>, <<>>, "none", None)
                ELSE
                LET short_sma == short.sma_values
                    long_sma == long.sma_values
                    signals == ScanSignals(prices, dates, short_sma, long_sma,
                                           ScanStart, <<>>)
                    last_short == short_sma[Len(short_sma)]
                    last_long == long_sma[Len(long_sma)]
                IN  IF IsNone(last_short) \/ IsNone(last_long)
                    THEN SignalResult("Raised", "TypeError", prices, dates,
                                      short_sma, long_sma, signals, "none", None)
                    ELSE SignalResult("Report", "none", prices, dates,
                                      short_sma, long_sma, signals,
                                      TrendStatus(Val(last_short), Val(last_long)),
                                      Some(RatSub(Val(last_short), Val(last_long))))

\* variant: the engine reverses the stored list itself (data.reverse())
AnalyzeBuySellSignalsInPlace ==
    /\ pc = "menu"
    /\ \E stock_name \in RawNames :
        /\ call' = [engine |-> "analyze_buy_sell_signals",
                    stock_name |-> stock_name]
        /\ result' = analyze_buy_sell_signals(registry, stock_name)
        /\ registry' = [k \in DOMAIN registry |->
                            IF k = Upper(Strip(stock_name))
                            THEN Reverse(registry[k]) ELSE registry[k]]
    /\ pc' = "done"
    /\ UNCHANGED watchlist

AnalyzeBuySellSignals ==
    /\ pc = "menu"
    /\ \E stock_name \in RawNames :
        /\ call' = [engine |-> "analyze_buy_sell_signals",
                    stock_name |-> stock_name]
        /\ result' = analyze_buy_sell_signals(registry, stock_name)
    /\ pc' = "done"
    /\ UNCHANGED <<registry, watchlist>>

(***************************************************************************)
(* stock_analysis.generate_stock_summary                                   *)
(***************************************************************************)
days_to_analyze == 10

Min2(a, b) == IF a < b THEN a ELSE b

\* variant: the slice takes one record too many
SliceOff(data, n) == SubSeq(data, 1, Min2(n + 1, Len(data)))

Slice(data, n) == SubSeq(data, 1, Min2(n, Len(data)))

ValidValues(rows, field) ==
    LET picked == [k \in 1..Len(rows) |-> rows[k][field]]
    IN  SelectSeq(picked, LAMBDA v : ~IsNone(v))

RECURSIVE MaxSeq(_)
MaxSeq(s) ==
    IF Len(s) = 1 THEN Val(s[1])
    ELSE LET m == MaxSeq(Tail(s)) IN IF Val(s[1]) >= m THEN Val(s[1]) ELSE m

RECURSIVE MinSeq(_)
MinSeq(s) ==
    IF Len(s) = 1 THEN Val(s[1])
    ELSE LET m == MinSeq(Tail(s)) IN IF Val(s[1]) <= m THEN Val(s[1]) ELSE m

\* f"{x:.2f}": the value in hundredths, rounded to nearest (ties to even)
Round2(x) ==
    LET n == x.num * 100
        q == n \div x.den
        r == n % x.den
    IN  IF 2 * r < x.den THEN q
        ELSE IF 2 * r > x.den THEN q + 1
        ELSE IF q % 2 = 0 THEN q ELSE q + 1

\* variant: the value is rounded up to the next integer
TruncUp(x) ==
    IF x.num % x.den = 0 THEN x.num \div x.den ELSE (x.num \div x.den) + 1

\* int(x) truncates toward zero
Trunc(x) ==
    IF x.num >= 0 THEN x.num \div x.den ELSE -((-x.num) \div x.den)

\* variant: the ratio is not scaled to a percentage
PctChangeNoScale(price_change, start_close) ==
    IF start_close # 0 THEN Rat(price_change, start_close) ELSE Rat(0, 1)

PctChange(price_change, start_close) ==
    IF start_close # 0 THEN Rat(price_change * 100, start_close) ELSE Rat(0, 1)

\* variant: a missing close is read as 0
PriceChangeZeroFill(current_close, start_close) ==
    (IF IsNone(current_close) THEN 0 ELSE Val(current_close))
        - (IF IsNone(start_close) THEN 0 ELSE Val(start_close))

PriceChange(current_close, start_close) ==
    IF ~IsNone(start_close) /\ ~IsNone(current_close)
    THEN Val(current_close) - Val(start_close)
    ELSE 0

\* variant: the running maximum starts from a sentinel, as in whole.py
HighestPriceSentinel(valid_highs) ==
    IF valid_highs # <<>> THEN MaxSeq(valid_highs) ELSE -1

HighestPrice(valid_highs) ==
    IF valid_highs # <<>> THEN MaxSeq(valid_highs) ELSE 0

LowestPrice(valid_lows) ==
    IF valid_lows # <<>> THEN MinSeq(valid_lows) ELSE 0

\* variant: the failure hands back an empty table instead of None
SummaryFailureEmptyTable(outcome) ==
    [engine |-> "generate_stock_summary", outcome |-> outcome,
     raised |-> "none", returned |-> Some(<<>>)]

SummaryFailure(outcome) ==
    [engine |-> "generate_stock_summary", outcome |-> outcome,
     raised |-> "none", returned |-> None]

generate_stock_summary(reg, stock_name) ==
    LET key == Upper(Strip(stock_name))
    IN  IF key \notin DOMAIN reg THEN SummaryFailure("SymbolNotFound")
        ELSE IF reg[key] = <<>> THEN SummaryFailure("EmptySeries")
        ELSE
        LET data == reg[key]
            recent_data == Slice(data, days_to_analyze)
            current_row == recent_data[1]
            start_row == recent_data[Len(recent_data)]
            current_close == current_row.close
            start_close == start_row.close
            valid_highs == ValidValues(recent_data, "high")
            valid_lows == ValidValues(recent_data, "low")
            valid_volumes == ValidValues(recent_data, "volume")
            highest_price == HighestPrice(valid_highs)
            lowest_price == LowestPrice(valid_lows)
            avg_volume == IF valid_volumes # <<>>
                          THEN Rat(SumSeq(valid_volumes), Len(valid_volumes))
                          ELSE Rat(0, 1)
            both == ~IsNone(start_close) /\ ~IsNone(current_close)
            price_change == PriceChange(current_close, start_close)
            pct_change == IF both THEN PctChange(price_change, Val(start_close))
                          ELSE Rat(0, 1)
            \* formatting current_close = None raises inside the try block;
            \* the handler prints the error and execution continues
            print_error == IsNone(current_close)
            summary_data ==
                [stock_name |-> key,
                 analysis_period |-> Len(recent_data),
                 from_date |-> start_row.date,
                 to_date |-> current_row.date,
                 current_price |-> current_close,
                 price_change |-> price_change,
                 percent_change |-> Round2(pct_change),
                 high |-> highest_price,
                 low |-> lowest_price,
                 avg_volume |-> Trunc(avg_volume)]
        IN  [engine |-> "generate_stock_summary", outcome |-> "Summary",
             raised |-> "none", print_error |-> print_error,
             pct_change |-> pct_change, avg_volume |-> avg_volume,
             returned |-> Some(summary_data)]

GenerateStockSummary ==
    /\ pc = "menu"
    /\ \E stock_name \in RawNames :
        /\ call' = [engine |-> "generate_stock_summary",
                    stock_name |-> stock_name]
        /\ result' = generate_stock_summary(registry, stock_name)
    /\ pc' = "done"
    /\ UNCHANGED <<registry, watchlist>>

(***************************************************************************)
(* stock_query.get_price_by_date.  The function returns either a float or  *)
(* one of three message strings.                                           *)
(***************************************************************************)
FloatValue(x) == [type |-> "float", number |-> x]

StrValue(t) == [type |-> "str", text |-> t]

\* the index of the row on which the loop returns, 0 when it runs to the end
RECURSIVE QueryScan(_, _, _)
QueryScan(data, target_date, i) ==
    IF i > Len(data) THEN 0
    ELSE IF data[i].date = target_date THEN i
    ELSE QueryScan(data, target_date, i + 1)

\* variant: the loop does not return on a match, the last match decides
QueryHitLast(data, target_date) ==
    LET m == {i \in 1..Len(data) : data[i].date = target_date}
    IN  IF m = {} THEN 0 ELSE CHOOSE i \in m : \A j \in m : j <= i

QueryHit(data, target_date) == QueryScan(data, target_date, 1)

QueryResult(outcome, returned) ==
    [engine |-> "get_price_by_date", outcome |-> outcome, raised |-> "none",
     returned |-> returned]

get_price_by_date(reg, stock_name, target_input) ==
    LET key == Upper(Strip(stock_name))
        target_date == Strip(target_input)
    IN  IF key \notin DOMAIN reg
        THEN QueryResult("SymbolNotFound", StrValue(<<"Error: Stock '", key, "' not found.">>))
        ELSE
        LET data == reg[key]
            hit == QueryHit(data, target_date)
        IN  IF hit = 0
            THEN QueryResult("DateNotFound", StrValue(<<"Date not found.">>))
            ELSE IF IsNone(data[hit].close)
            THEN QueryResult("PriceMissing",
                             StrValue(<<"Price data is missing for this date.">>))
            ELSE QueryResult("Price", FloatValue(Val(data[hit].close)))

QueryDates == {<<"1">>, <<"a">>}

RawTargets == {<<"1">>, <<" ", "1", " ">>, <<"a">>, <<"A">>, <<"2">>}

GetPriceByDate ==
    /\ pc = "menu"
    /\ \E stock_name \in RawNames, target_input \in RawTargets :
        /\ call' = [engine |-> "get_price_by_date", stock_name |-> stock_name,
                    target_input |-> target_input]
        /\ result' = get_price_by_date(registry, stock_name, target_input)
    /\ pc' = "done"
    /\ UNCHANGED <<registry, watchlist>>

(***************************************************************************)
(* stock_watchlist.get_quick_info.  The returned line is modelled by its   *)
(* parts: the price and date of row 0, the change label and the            *)
(* difference.                                                             *)
(***************************************************************************)
QuickResult(outcome, price, date, change, diff) ==
    [engine |-> "get_quick_info", outcome |-> outcome, raised |-> "none",
     price |-> price, date |-> date, change |-> change, diff |-> diff]

\* variant: an unchanged price is labelled UP
QuickChangeFlatUp(diff) == IF diff >= 0 THEN "UP" ELSE "DOWN"

QuickChange(diff) ==
    IF diff > 0 THEN "UP" ELSE IF diff < 0 THEN "DOWN" ELSE "FLAT"

get_quick_info(reg, stock_name) ==
    LET key == Upper(stock_name)
    IN  IF key \notin DOMAIN reg
        THEN QuickResult("NotLoaded", None, None, "none", None)
        ELSE
        LET data == reg[key]
        IN  IF data = <<>>
            THEN QuickResult("NoRows", None, None, "none", None)
            ELSE
            LET recent_price == data[1].close
                date_str == data[1].date
            IN  IF IsNone(recent_price)
                THEN QuickResult("PriceMissing", None, None, "none", None)
                ELSE IF Len(data) > 1 /\ ~IsNone(data[2].close)
                THEN LET diff == Val(recent_price) - Val(data[2].close)
                     IN  QuickResult("Info", recent_price, Some(date_str),
                                     QuickChange(diff), Some(diff))
                ELSE QuickResult("Info", recent_price, Some(date_str),
                                 "none", None)

\* the names kept in the watchlist file
QuickNames == {<<"A">>, <<"a">>, <<" ", "a">>, <<"B">>}

GetQuickInfo ==
    /\ pc = "menu"
    /\ \E stock_name \in QuickNames :
        /\ call' = [engine |-> "get_quick_info", stock_name |-> stock_name]
        /\ result' = get_quick_info(registry, stock_name)
    /\ pc' = "done"
    /\ UNCHANGED <<registry, watchlist>>

(***************************************************************************)
(* stock_loader.add_stock_to_registry.                                     *)
(***************************************************************************)
\* variant: the key is uppercased but not stripped
RegistryKeyNoStrip(stock_name) == Upper(stock_name)

RegistryKey(stock_name) == Upper(Strip(stock_name))

add_stock_to_registry(reg, stock_name, data, replace) ==
    LET key == RegistryKey(stock_name)
    IN  IF key \in DOMAIN reg /\ ~replace
        THEN reg
        ELSE [k \in DOMAIN reg \cup {key} |-> IF k = key THEN data ELSE reg[k]]

\* the names the callers derive from file names and prompts
RegNames == {<<"A">>, <<" ", "a">>, <<"B">>, <<"b", " ">>}

RegRows == {CloseRow(<<"1">>, c) : c \in {None, Some(1)}}

RegSeries == SeqsUpTo(RegRows, MaxRegLen)

AddStockToRegistry ==
    /\ pc = "menu"
    /\ \E stock_name \in RegNames, data \in RegSeries, replace \in BOOLEAN :
        /\ call' = [engine |-> "add_stock_to_registry",
                    stock_name |-> stock_name, data |-> data,
                    replace |-> replace]
        /\ registry' = add_stock_to_registry(registry, stock_name, data, replace)
    /\ result' = [engine |-> "add_stock_to_registry", outcome |-> "Returned",
                  raised |-> "none"]
    /\ UNCHANGED <<pc, watchlist>>

(***************************************************************************)
(* stock_loader.read_csv_to_list_of_dicts.  A file is a header (a list of  *)
(* column names) and a list of raw rows (lists of cell strings).  A cell   *)
(* value is Some(string), or None where csv.DictReader fills a short row.  *)
(***************************************************************************)
LowerChar(c) ==
    IF c = "A" THEN "a" ELSE IF c = "C" THEN "c" ELSE IF c = "D" THEN "d"
    ELSE IF c = "K" THEN "k" ELSE IF c = "L" THEN "l"
    ELSE IF c = "R" THEN "r" ELSE IF c = "T" THEN "t" ELSE c

Lower(s) == [i \in 1..Len(s) |-> LowerChar(s[i])]

_normalize_header_name(h) == Lower(Strip(h))

_HEADER_MAP ==
    {<< <<"d", "a", "t", "e">>, "date" >>,
     << <<"t", "i", "m", "e", "s", "t", "a", "m", "p">>, "date" >>,
     << <<"o", "p", "e", "n">>, "open" >>,
     << <<"h", "i", "g", "h">>, "high" >>,
     << <<"l", "o", "w">>, "low" >>,
     << <<"c", "l", "o", "s", "e">>, "close" >>,
     << <<"a", "d", "j", " ", "c", "l", "o", "s", "e">>, "close" >>,
     << <<"a", "d", "j", "u", "s", "t", "e", "d", " ", "c", "l", "o", "s", "e">>,
        "close" >>,
     << <<"c", "l", "o", "s", "e", "/", "l", "a", "s", "t">>, "close" >>,
     << <<"v", "o", "l", "u", "m", "e">>, "volume" >>}

\* the standard key of a column, "other" for a name outside the table
StdKey(col) ==
    LET norm == _normalize_header_name(col)
    IN  IF \E e \in _HEADER_MAP : e[1] = norm
        THEN (CHOOSE e \in _HEADER_MAP : e[1] = norm)[2]
        ELSE "other"

validate_csv_structure(header) ==
    /\ header # <<>>
    /\ \E i \in 1..Len(header) : StdKey(header[i]) = "date"
    /\ \E i \in 1..Len(header) : StdKey(header[i]) = "close"

RECURSIVE RemoveChars(_, _)
RemoveChars(s, chars) ==
    IF s = <<>> THEN <<>>
    ELSE IF Head(s) \in chars THEN RemoveChars(Tail(s), chars)
    ELSE <<Head(s)>> \o RemoveChars(Tail(s), chars)

DigitChars == <<"0", "1", "2", "3", "4", "5", "6", "7", "8", "9">>

\* float() of the strings the model uses: one decimal digit
ParseFloat(s) ==
    IF Len(s) = 1 /\ \E d \in 1..10 : DigitChars[d] = s[1]
    THEN Some((CHOOSE d \in 1..10 : DigitChars[d] = s[1]) - 1)
    ELSE None

_to_float_or_none(value) ==
    IF IsNone(value) THEN None
    ELSE LET v == Strip(Val(value))
         IN  IF v = <<>> THEN None
             ELSE ParseFloat(RemoveChars(v, {",", "$"}))

\* csv.DictReader: the cell of column i, None (restval) in a short row
CellOf(raw, i) == IF i <= Len(raw) THEN Some(raw[i]) ELSE None

\* the column whose value a key of the row dict holds: the last one mapped to it
LastColumn(header, key) ==
    LET cols == {i \in 1..Len(header) : StdKey(header[i]) = key}
    IN  CHOOSE i \in cols : \A j \in cols : j <= i

\* variant: the date cell is stored as read, not stripped
DateValueAsRead(val) == IF ~IsNone(val) THEN Val(val) ELSE <<>>

DateValue(val) == IF ~IsNone(val) THEN Strip(Val(val)) ELSE <<>>

LoaderRow(header, raw) ==
    [date |-> DateValue(CellOf(raw, LastColumn(header, "date"))),
     close |-> _to_float_or_none(CellOf(raw, LastColumn(header, "close")))]

RECURSIVE ReadRows(_, _, _, _)
ReadRows(header, raws, i, rows) ==
    IF i > Len(raws) THEN [raised |-> "none", rows |-> rows]
    ELSE IF raws[i] = <<>> THEN ReadRows(header, raws, i + 1, rows)
    ELSE IF Len(raws[i]) > Len(header)
    THEN [raised |-> "AttributeError", rows |-> <<>>]
    ELSE LET row == LoaderRow(header, raws[i])
         IN  IF row.date = <<>>
             THEN ReadRows(header, raws, i + 1, rows)
             ELSE ReadRows(header, raws, i + 1, Append(rows, row))

read_csv_to_list_of_dicts(file) ==
    IF ~validate_csv_structure(file.header)
    THEN [raised |-> "ValueError", rows |-> <<>>]
    ELSE ReadRows(file.header, file.rows, 1, <<>>)

CsvHeaders ==
    {<< <<"D", "a", "t", "e">>, <<"C", "l", "o", "s", "e">> >>,
     << <<"A", "d", "j", " ", "C", "l", "o", "s", "e">>,
        <<" ", "T", "i", "m", "e", "s", "t", "a", "m", "p">> >>,
     << <<"D", "a", "y">>, <<"C", "l", "o", "s", "e">> >>}

CsvCells == {<<>>, <<" ">>, <<"1">>, <<" ", "2">>}

\* blank lines, short rows, full rows and a row with one field too many
CsvRawRows ==
    {<<>>} \cup {<<c>> : c \in {<<" ">>, <<"1">>}}
        \cup {<<c, d>> : c \in CsvCells, d \in {<<>>, <<"1">>}}
        \cup {<< <<"1">>, <<"1">>, <<"1">> >>}

LoadCsv ==
    /\ pc = "menu"
    /\ \E header \in CsvHeaders, n \in 0..MaxCsvRows :
        \E raws \in [1..n -> CsvRawRows] :
            LET file == [header |-> header, rows |-> raws]
                read == read_csv_to_list_of_dicts(file)
            IN  /\ call' = [engine |-> "read_csv_to_list_of_dicts",
                            stock_name |-> StockKey, file |-> file]
                /\ result' = [engine |-> "read_csv_to_list_of_dicts",
                              outcome |-> IF read.raised = "none"
                                          THEN "Returned" ELSE "Raised",
                              raised |-> read.raised]
                /\ registry' = IF read.raised = "none"
                               THEN add_stock_to_registry(registry, StockKey,
                                                          read.rows, TRUE)
                               ELSE registry
    /\ pc' = "done"
    /\ UNCHANGED watchlist

(***************************************************************************)
(* main.py: the main menu loop.  pc is "menu" at the prompt, the name of a *)
(* handler while that handler runs, "exited" after the break and "crashed" *)
(* when an exception left the loop.                                        *)
(***************************************************************************)
\* the action each printed menu line announces
MenuLabel(choice) ==
    CASE choice = <<"1">> -> "list_stocks"
      [] choice = <<"2">> -> "upload_stock_action"
      [] choice = <<"3">> -> "reload_stock_action"
      [] choice = <<"4">> -> "preview_stock_action"
      [] choice = <<"5">> -> "generate_stock_summary"
      [] choice = <<"6">> -> "manage_watchlist"
      [] choice = <<"7">> -> "analyze_buy_sell_signals"
      [] choice = <<"8">> -> "track_performance"
      [] choice = <<"9">> -> "exit"
      [] OTHER -> "invalid"

\* the branch of the if/elif chain a choice takes
MenuDispatch(choice) ==
    CASE choice = <<"1">> -> "list_stocks"
      [] choice = <<"2">> -> "upload_stock_action"
      [] choice = <<"3">> -> "reload_stock_action"
      [] choice = <<"4">> -> "preview_stock_action"
      [] choice = <<"5">> -> "generate_stock_summary"
      [] choice = <<"6">> -> "get_price_by_date"
      [] choice = <<"7">> -> "manage_watchlist"
      [] choice = <<"8">> -> "analyze_buy_sell_signals"
      [] choice = <<"9">> -> "track_performance"
      [] choice = <<"1", "0">> -> "exit"
      [] OTHER -> "invalid"

\* what the user may type at "Enter choice (1-9): "
MenuInputs ==
    {<<DigitChars[d + 1]>> : d \in 0..9}
        \cup {<<"1", "0">>, <<" ", "5", " ">>, <<"x">>, <<>>}

MainMenuChoice ==
    /\ pc = "menu"
    /\ \E input \in MenuInputs :
        LET choice == Strip(input)
            branch == MenuDispatch(choice)
        IN  /\ call' = [engine |-> "main_menu", input |-> input]
            /\ result' = [engine |-> "main_menu", outcome |-> branch,
                          raised |-> "none"]
            /\ pc' = IF branch = "exit" THEN "exited"
                     ELSE IF branch = "invalid" THEN "menu"
                     ELSE branch
    /\ UNCHANGED <<registry, watchlist>>

\* _select_stock: None, or a key of the registry picked by number or by name
SelectStock(reg) == {None} \cup {Some(k) : k \in DOMAIN reg}

\* the handlers that only read the registry
ViewHandlers ==
    {"list_stocks", "preview_stock_action", "generate_stock_summary",
     "get_price_by_date", "analyze_buy_sell_signals", "track_performance"}

\* the engines that let an exception through to the loop
RaisingHandlers == {"analyze_buy_sell_signals", "track_performance"}

\* a read-only handler runs and returns to the loop, or its engine raises
RunViewHandler ==
    /\ pc \in ViewHandlers
    /\ \E selected \in SelectStock(registry), raises \in BOOLEAN :
        /\ raises => (selected # None /\ pc \in RaisingHandlers)
        /\ pc = "list_stocks" => selected = None
        /\ result' = [engine |-> pc,
                      outcome |-> IF raises THEN "Raised"
                                  ELSE IF selected = None /\ pc # "list_stocks"
                                  THEN "NoSelection"
                                  ELSE "Returned",
                      raised |-> IF raises THEN "Exception" ELSE "none"]
        /\ pc' = IF raises THEN "crashed" ELSE "menu"
    /\ UNCHANGED <<registry, watchlist, call>>

(***************************************************************************)
(* main.upload_stock_action.  A path is modelled by the stem of its base   *)
(* name, whether the file exists, whether it ends in .csv, and the file.   *)
(***************************************************************************)
extract_stock_name_from_path(path) ==
    IF path.stem # <<>> THEN Upper(Strip(path.stem))
    ELSE <<"U", "N", "K", "N", "O", "W", "N">>

\* validate_csv_structure on a path: existence, extension, header
ValidPath(path) ==
    /\ path.exists
    /\ path.csv
    /\ validate_csv_structure(path.file.header)

DateCloseHeader == << <<"D", "a", "t", "e">>, <<"C", "l", "o", "s", "e">> >>

\* an empty file, files of one and two rows, a file with a row of three
\* fields, and a file without a date column
UploadFiles ==
    {[header |-> DateCloseHeader, rows |-> <<>>],
     [header |-> DateCloseHeader, rows |-> << << <<"1">>, <<"1">> >> >>],
     [header |-> DateCloseHeader,
      rows |-> << << <<"1">>, <<"0">> >>, << <<" ">>, <<"1">> >> >>],
     [header |-> DateCloseHeader,
      rows |-> << << <<"1">>, <<"1">>, <<"1">> >> >>],
     [header |-> << <<"D", "a", "y">>, <<"C", "l", "o", "s", "e">> >>,
      rows |-> << << <<"1">>, <<"1">> >> >>]}

UploadStems == {<<" ", "a">>, <<"B">>}

\* what the user may type at the path prompt
UploadInputs ==
    {[cancel |-> TRUE, stem |-> <<>>, exists |-> FALSE, csv |-> FALSE,
      file |-> [header |-> <<>>, rows |-> <<>>]]}
        \cup {[cancel |-> FALSE, stem |-> st, exists |-> TRUE, csv |-> TRUE,
               file |-> f] : st \in UploadStems, f \in UploadFiles}
        \cup {[cancel |-> FALSE, stem |-> <<"B">>, exists |-> e, csv |-> c,
               file |-> [header |-> DateCloseHeader, rows |-> <<>>]] :
                e \in BOOLEAN, c \in BOOLEAN}

\* step 4: copy into data/, parse, store; copied is whether the copy succeeded
PerformUpload(reg, path, copied) ==
    LET stock_name == extract_stock_name_from_path(path)
        read == read_csv_to_list_of_dicts(path.file)
    IN  IF ~copied THEN [outcome |-> "CopyFailed", registry |-> reg]
        ELSE IF read.raised # "none"
        THEN [outcome |-> "ParseError", registry |-> reg]
        ELSE [outcome |-> "Uploaded",
              registry |-> add_stock_to_registry(reg, stock_name, read.rows,
                                                 TRUE)]

UploadResult(outcome) ==
    [engine |-> "upload_stock_action", outcome |-> outcome, raised |-> "none"]

\* steps 1 to 3, and step 4 for a symbol that is not loaded yet
UploadStockAction ==
    /\ pc = "upload_stock_action"
    /\ \E path \in UploadInputs, copied \in BOOLEAN :
        /\ call' = [engine |-> "upload_stock_action", path |-> path,
                    answer |-> <<>>, copied |-> copied]
        /\ IF path.cancel
           THEN /\ result' = UploadResult("Cancelled")
                /\ pc' = "menu"
                /\ UNCHANGED registry
           ELSE IF ~ValidPath(path)
           THEN /\ result' = UploadResult("ValidationFailed")
                /\ pc' = "menu"
                /\ UNCHANGED registry
           ELSE IF Upper(extract_stock_name_from_path(path)) \in DOMAIN registry
           THEN /\ result' = UploadResult("AskReplace")
                /\ pc' = "upload_prompt"
                /\ UNCHANGED registry
           ELSE LET done == PerformUpload(registry, path, copied)
                IN  /\ result' = UploadResult(done.outcome)
                    /\ pc' = "menu"
                    /\ registry' = done.registry
    /\ UNCHANGED watchlist

UploadAnswers == {<<"r">>, <<"R">>, <<"k">>, <<"c">>, <<"x">>, <<>>}

\* variant: Keep uploads as well
UploadProceedsOnKeep(answer) == Lower(answer) \in {<<"r">>, <<"k">>}

UploadProceeds(answer) == Lower(answer) = <<"r">>

\* the (R)eplace / (K)eep existing / (C)ancel prompt of an already loaded symbol
UploadPrompt ==
    /\ pc = "upload_prompt"
    /\ \E answer \in UploadAnswers, copied \in BOOLEAN :
        /\ call' = [call EXCEPT !.answer = answer, !.copied = copied]
        /\ IF UploadProceeds(answer)
           THEN LET done == PerformUpload(registry, call.path, copied)
                IN  /\ result' = UploadResult(done.outcome)
                    /\ pc' = "menu"
                    /\ registry' = done.registry
           ELSE IF Lower(answer) = <<"k">>
           THEN /\ result' = UploadResult("Kept")
                /\ pc' = "menu"
                /\ UNCHANGED registry
           ELSE IF Lower(answer) = <<"c">>
           THEN /\ result' = UploadResult("PromptCancelled")
                /\ pc' = "menu"
                /\ UNCHANGED registry
           ELSE /\ result' = UploadResult("InvalidAnswer")
                /\ pc' = "upload_prompt"
                /\ UNCHANGED registry
    /\ UNCHANGED watchlist

\* main.reload_stock_action: the file found in data/ for the selected symbol
\* is whatever the directory holds at that moment
ReloadStockAction ==
    /\ pc = "reload_stock_action"
    /\ \E selected \in SelectStock(registry), found \in BOOLEAN,
          file \in UploadFiles :
        LET read == read_csv_to_list_of_dicts(file)
        IN  /\ result' = [engine |-> "reload_stock_action",
                          outcome |-> IF selected = None THEN "NoSelection"
                                      ELSE IF ~found THEN "FileNotFound"
                                      ELSE IF read.raised # "none" THEN "Error"
                                      ELSE "Reloaded",
                          raised |-> "none"]
            /\ registry' = IF selected # None /\ found /\ read.raised = "none"
                           THEN add_stock_to_registry(registry, Val(selected),
                                                      read.rows, TRUE)
                           ELSE registry
    /\ pc' = "menu"
    /\ UNCHANGED <<watchlist, call>>

(***************************************************************************)
(* stock_watchlist.manage_watchlist: one pass of its loop reads the saved  *)
(* file, shows the dashboard, asks for a choice and acts on it.            *)
(***************************************************************************)
load_watchlist(file) == [i \in 1..Len(file) |-> Upper(Strip(file[i]))]

save_watchlist(favorites) == favorites

InList(list, x) == \E i \in 1..Len(list) : list[i] = x

\* list.remove(x): the first occurrence goes
ListRemove(list, x) ==
    LET first == CHOOSE i \in 1..Len(list) :
                     list[i] = x /\ \A j \in 1..(i - 1) : list[j] # x
    IN  SubSeq(list, 1, first - 1) \o SubSeq(list, first + 1, Len(list))

\* variant: a loaded symbol is appended whether or not it is already listed
AddVerdictNoListCheck(reg, favorites, name) ==
    IF name \notin DOMAIN reg THEN "NotLoaded" ELSE "Added"

AddVerdict(reg, favorites, name) ==
    IF name \notin DOMAIN reg THEN "NotLoaded"
    ELSE IF InList(favorites, name) THEN "AlreadyListed"
    ELSE "Added"

RemoveVerdict(favorites, name) ==
    IF InList(favorites, name) THEN "Removed" ELSE "NotInWatchlist"

WatchChoices == {<<"a">>, <<"A">>, <<" ", "r">>, <<"b">>, <<"x">>}

WatchNames == {<<"A">>, <<" ", "a">>, <<"B">>, <<"C">>}

ManageWatchlist ==
    /\ pc = "manage_watchlist"
    /\ \E input \in WatchChoices, typed \in WatchNames :
        LET favorites == load_watchlist(watchlist)
            choice == Lower(Strip(input))
            name == Upper(Strip(typed))
            outcome ==
                IF choice = <<"a">> THEN AddVerdict(registry, favorites, name)
                ELSE IF choice = <<"r">> THEN RemoveVerdict(favorites, name)
                ELSE IF choice = <<"b">> THEN "Back"
                ELSE "InvalidChoice"
        IN  /\ call' = [engine |-> "manage_watchlist", input |-> input,
                        typed |-> typed]
            /\ result' = [engine |-> "manage_watchlist", outcome |-> outcome,
                          raised |-> "none"]
            /\ watchlist' =
                  IF outcome = "Added"
                  THEN save_watchlist(Append(favorites, name))
                  ELSE IF outcome = "Removed"
                  THEN save_watchlist(ListRemove(favorites, name))
                  ELSE watchlist
            /\ pc' = IF outcome = "Back" THEN "menu" ELSE "manage_watchlist"
    /\ UNCHANGED registry

(***************************************************************************)
(* Specifications.  The registry is filled before the menu loop starts     *)
(* (main.py preloads data/); each specification draws the loaded series    *)
(* from a bounded family and then lets the user invoke the engine.         *)
(***************************************************************************)
NoCall == [engine |-> "none"]

NoResult == [engine |-> "none", outcome |-> "none", raised |-> "none"]

Loaded(series) == [k \in {StockKey} |-> series]

DayName(k) == <<DigitChars[(k \div 10) + 1], DigitChars[(k % 10) + 1]>>

PerfSeries == SeqsUpTo({CloseRow(d, c) : d \in Dates, c \in Closes}, MaxPerfLen)

\* a series with the closes 60 (newer) and 50 (older)
TradeSeries == <<CloseRow(<<"1">>, Some(60)), CloseRow(<<"2">>, Some(50))>>

InitPerf ==
    /\ registry \in {Loaded(s) : s \in PerfSeries \cup {TradeSeries}}
    /\ pc = "menu"
    /\ call = NoCall
    /\ result = NoResult
    /\ watchlist = <<>>

NextPerf == TrackPerformance

SpecPerf == InitPerf /\ [][NextPerf]_vars

InitSma ==
    /\ registry = Loaded(<<>>)
    /\ pc = "menu"
    /\ call = NoCall
    /\ result = NoResult
    /\ watchlist = <<>>

NextSma == CalculateSma

SpecSma == InitSma /\ [][NextSma]_vars

SigCloses == {None, Some(0), Some(1)}

NoneCount(cs) == Cardinality({k \in 1..Len(cs) : IsNone(cs[k])})

SigSeriesOf(cs) == [k \in 1..Len(cs) |-> CloseRow(DayName(k), cs[k])]

InitSignals ==
    /\ \E n \in 0..MaxSigLen :
        \E cs \in [1..n -> SigCloses] :
            /\ NoneCount(cs) <= MaxNulls
            /\ registry = Loaded(SigSeriesOf(cs))
    /\ pc = "menu"
    /\ call = NoCall
    /\ result = NoResult
    /\ watchlist = <<>>

NextSignals == AnalyzeBuySellSignals

SpecSignals == InitSignals /\ [][NextSignals]_vars

LevelRow(k, v) == Row(DayName(k), v, v, v, v, v)

\* series of at most three runs of equal levels, of every length up to the bound
SumSeries ==
    {[k \in 1..n |-> LevelRow(k, IF k <= i THEN a ELSE IF k <= j THEN b ELSE c)] :
        <<n, i, j>> \in {t \in (0..MaxSumLen) \X (0..MaxSumLen) \X (0..MaxSumLen) :
                            t[2] <= t[3] /\ t[3] <= t[1]},
        a \in Closes, b \in Closes, c \in Closes}

FieldValues == {None} \cup {Some(x) : x \in 1..MaxField}

FieldRow(k, h, l, v) == Row(DayName(k), None, h, l, Some(1), v)

\* high, low and volume vary independently of each other
FieldTriples == FieldValues \X FieldValues \X FieldValues

\* the newest record has one triple of high, low and volume, the older
\* records share another
FieldSeries ==
    {[k \in 1..n |-> IF k = 1 THEN FieldRow(k, a[1], a[2], a[3])
                              ELSE FieldRow(k, b[1], b[2], b[3])] :
        n \in 1..MaxFieldLen, a \in FieldTriples, b \in FieldTriples}

InitSummary ==
    /\ registry \in {Loaded(s) : s \in SumSeries \cup FieldSeries}
    /\ pc = "menu"
    /\ call = NoCall
    /\ result = NoResult
    /\ watchlist = <<>>

NextSummary == GenerateStockSummary

SpecSummary == InitSummary /\ [][NextSummary]_vars

QuerySeries ==
    SeqsUpTo({CloseRow(d, c) : d \in QueryDates, c \in Closes}, MaxQueryLen)

InitQuery ==
    /\ registry \in {Loaded(s) : s \in QuerySeries}
    /\ pc = "menu"
    /\ call = NoCall
    /\ result = NoResult
    /\ watchlist = <<>>

NextQuery == GetPriceByDate

SpecQuery == InitQuery /\ [][NextQuery]_vars

QuickSeries ==
    SeqsUpTo({CloseRow(d, c) : d \in Dates, c \in Closes}, MaxQuickLen)

InitQuick ==
    /\ registry \in {Loaded(s) : s \in QuickSeries}
    /\ pc = "menu"
    /\ call = NoCall
    /\ result = NoResult
    /\ watchlist = <<>>

NextQuick == GetQuickInfo

SpecQuick == InitQuick /\ [][NextQuick]_vars

\* short series with duplicate dates and null closes, and series long enough
\* for the signal engine with one close varied
FrameSeries ==
    SeqsUpTo({CloseRow(d, c) : d \in Dates, c \in Closes}, MaxFrameLen)
        \cup {SigSeriesOf([k \in 1..n |-> IF k = j THEN c ELSE Some(k % 2)]) :
                n \in MinSignalRows..(MinSignalRows + 1),
                j \in 1..(MinSignalRows + 1), c \in SigCloses}

Init ==
    /\ registry \in {Loaded(s) : s \in FrameSeries}
    /\ pc = "menu"
    /\ call = NoCall
    /\ result = NoResult
    /\ watchlist = <<>>

Next ==
    \/ GenerateStockSummary
    \/ AnalyzeBuySellSignals
    \/ GetPriceByDate
    \/ TrackPerformance
    \/ GetQuickInfo

Spec == Init /\ [][Next]_vars

\* all_stocks = {} before the preload
EmptyRegistry == [k \in {} |-> <<>>]

InitRegistry ==
    /\ registry = EmptyRegistry
    /\ pc = "menu"
    /\ call = NoCall
    /\ result = NoResult
    /\ watchlist = <<>>

NextRegistry == AddStockToRegistry

SpecRegistry == InitRegistry /\ [][NextRegistry]_vars

InitLoader ==
    /\ registry = EmptyRegistry
    /\ pc = "menu"
    /\ call = NoCall
    /\ result = NoResult
    /\ watchlist = <<>>

NextLoader == LoadCsv

SpecLoader == InitLoader /\ [][NextLoader]_vars

\* the symbols a saved watchlist may hold: C is listed but never loaded
WatchSymbols == {<<"A">>, <<"B">>, <<"C">>}

\* the watchlists the program saves: no symbol twice
SavedWatchlists ==
    {w \in SeqsUpTo(WatchSymbols, MaxWatchLen) :
        \A i, j \in 1..Len(w) : i # j => w[i] # w[j]}

\* after the preload: nothing, or one file of data/ loaded under A
InitMenu ==
    /\ registry \in {EmptyRegistry}
          \cup {[k \in {StockKey} |-> read_csv_to_list_of_dicts(f).rows] :
                  f \in {g \in UploadFiles :
                            read_csv_to_list_of_dicts(g).raised = "none"}}
    /\ pc = "menu"
    /\ call = NoCall
    /\ result = NoResult
    /\ watchlist \in SavedWatchlists

NextMenu ==
    \/ MainMenuChoice
    \/ RunViewHandler
    \/ UploadStockAction
    \/ UploadPrompt
    \/ ReloadStockAction
    \/ ManageWatchlist

SpecMenu == InitMenu /\ [][NextMenu]_vars

\* series of 11 and more records whose closes are all present
InitCross ==
    /\ \E n \in MinSignalRows..MaxCrossLen :
        \E cs \in [1..n -> {Some(0), Some(1)}] :
            registry = Loaded(SigSeriesOf(cs))
    /\ pc = "menu"
    /\ call = NoCall
    /\ result = NoResult
    /\ watchlist = <<>>

NextCross == AnalyzeBuySellSignals

SpecCross == InitCross /\ [][NextCross]_vars

(***************************************************************************)
(* Properties.                                                             *)
(***************************************************************************)
Done(e) == pc = "done" /\ result.engine = e

CallKey == Upper(Strip(call.stock_name))

Known == CallKey \in DOMAIN registry

Data == registry[CallKey]

Matches(data, date) == {k \in 1..Len(data) : data[k].date = date}

FirstMatch(data, date) ==
    CHOOSE k \in Matches(data, date) : \A j \in Matches(data, date) : k <= j

\* C1: the performance simulation takes as buy price the close of the FIRST
\* record in stored order whose date equals buyDate, and as sell price the
\* close of the FIRST record whose date equals sellDate; later records with
\* the same date change neither price.
C1_FirstMatchingClose ==
    (Done("track_performance") /\ Known) =>
        /\ Matches(Data, result.buy_date) # {} =>
              result.buy_price = Data[FirstMatch(Data, result.buy_date)].close
        /\ Matches(Data, result.sell_date) # {} =>
              result.sell_price = Data[FirstMatch(Data, result.sell_date)].close

\* C2: 'buy date not found' is reported exactly when no record has the buy
\* date, otherwise 'sell date not found' exactly when no record has the sell
\* date; when both dates match some record, whatever its close, neither
\* error is reported.
C2_DateNotFoundExactly ==
    (Done("track_performance") /\ Known) =>
        /\ result.outcome = "BuyDateNotFound"
              <=> Matches(Data, Strip(call.buy_input)) = {}
        /\ Matches(Data, Strip(call.buy_input)) # {} =>
              (result.outcome = "SellDateNotFound"
                  <=> Matches(Data, Strip(call.sell_input)) = {})

\* C3: every engine call on a series that satisfies the data model completes
\* with an explicit success or error outcome; none ends in an unhandled
\* exception.
C3_NoUnhandledException ==
    pc = "done" => (result.raised = "none" /\ result.outcome # "Raised")

EmittedAt(i, kind) ==
    \E k \in 1..Len(result.signals) :
        result.signals[k].index = i /\ result.signals[k].kind = kind

ShortAt(i) == Val(result.short_sma[i + 1])

LongAt(i) == Val(result.long_sma[i + 1])

BuyCondition(i) ==
    RatLE(ShortAt(i - 1), LongAt(i - 1)) /\ RatLT(LongAt(i), ShortAt(i))

SellCondition(i) ==
    RatLE(LongAt(i - 1), ShortAt(i - 1)) /\ RatLT(ShortAt(i), LongAt(i))

\* C4: in the crossover scan over chronological indices i from 10 to the
\* last index, a Buy is emitted at i iff shortSMA[i-1] <= longSMA[i-1] and
\* shortSMA[i] > longSMA[i], a Sell iff shortSMA[i-1] >= longSMA[i-1] and
\* shortSMA[i] < longSMA[i]; no index emits both, and nothing is emitted at
\* an index where neither holds (nor outside the scanned indices).
C4_CrossoverIff ==
    Done("analyze_buy_sell_signals") =>
        /\ result.outcome # "Report" => result.signals = <<>>
        /\ result.outcome = "Report" =>
            /\ \A i \in 10..(Len(result.prices) - 1) :
                /\ EmittedAt(i, "BUY") <=> BuyCondition(i)
                /\ EmittedAt(i, "SELL") <=> SellCondition(i)
                /\ ~(EmittedAt(i, "BUY") /\ EmittedAt(i, "SELL"))
            /\ \A k \in 1..Len(result.signals) :
                /\ result.signals[k].index \in 10..(Len(result.prices) - 1)
                /\ result.signals[k].kind \in {"BUY", "SELL"}
            /\ \A k1, k2 \in 1..Len(result.signals) :
                result.signals[k1].index = result.signals[k2].index => k1 = k2

\* a Buy fired on the non-strict side: the averages were exactly equal before
C4_Witness ==
    /\ Done("analyze_buy_sell_signals")
    /\ result.outcome = "Report"
    /\ \E i \in 10..(Len(result.prices) - 1) :
        /\ EmittedAt(i, "BUY")
        /\ RatEq(ShortAt(i - 1), LongAt(i - 1))

RECURSIVE SumRange(_, _, _)
SumRange(xs, lo, hi) ==
    IF lo > hi THEN 0 ELSE Val(xs[hi]) + SumRange(xs, lo, hi - 1)

\* C5: for every sequence of prices and period p >= 1, _calculate_sma
\* returns a sequence of the same length whose entry i is None when
\* i + 1 < p and otherwise the arithmetic mean of prices[i-p+1 .. i];
\* prices [1,2,3,4,5] with p = 3 give [None, None, 2, 3, 4].
C5_SmaDefinition ==
    (Done("_calculate_sma") /\ ~HasNone(call.prices)) =>
        /\ result.raised = "none"
        /\ Len(result.sma_values) = Len(call.prices)
        /\ \A i \in 0..(Len(call.prices) - 1) :
            IF i + 1 < call.period
            THEN result.sma_values[i + 1] = None
            ELSE /\ result.sma_values[i + 1] # None
                 /\ Val(result.sma_values[i + 1]).den > 0
                 /\ Val(result.sma_values[i + 1]).num * call.period =
                        SumRange(call.prices, i - call.period + 2, i + 1)
                            * Val(result.sma_values[i + 1]).den
        /\ (call.prices = <<Some(1), Some(2), Some(3), Some(4), Some(5)>>
                /\ call.period = 3) =>
            /\ SubSeq(result.sma_values, 1, 2) = <<None, None>>
            /\ RatEq(Val(result.sma_values[3]), Rat(2, 1))
            /\ RatEq(Val(result.sma_values[4]), Rat(3, 1))
            /\ RatEq(Val(result.sma_values[5]), Rat(4, 1))

C5_Witness ==
    /\ Done("_calculate_sma")
    /\ call.prices = <<Some(1), Some(2), Some(3), Some(4), Some(5)>>
    /\ call.period = 3
    /\ Len(result.sma_values) = 5

\* C6: signal analysis on a series of 10 or fewer records ends with
\* InsufficientHistory, emits no signal and reports no trend; on a series of
\* 11 or more records it does not report InsufficientHistory.
C6_InsufficientHistory ==
    (Done("analyze_buy_sell_signals") /\ Known) =>
        /\ Len(Data) <= 10 =>
            /\ result.outcome = "InsufficientHistory"
            /\ result.signals = <<>>
            /\ result.status = "none"
            /\ result.diff = None
        /\ Len(Data) >= 11 => result.outcome # "InsufficientHistory"

C6_Witness ==
    /\ Done("analyze_buy_sell_signals")
    /\ Known
    /\ Len(Data) = 10
    /\ result.outcome = "InsufficientHistory"

\* the record at chronological index i (0 = oldest) of a newest-first series
ChronoRow(data, i) == data[Len(data) - i]

\* the mean of the p closes that end at chronological index i
ChronoMean(data, i, p) ==
    Rat(SumRange([k \in 1..Len(data) |-> data[k].close],
                 Len(data) - i, Len(data) - i + p - 1), p)

\* C7: signal analysis indexes the series in chronological order (stored
\* order reversed, index 0 = oldest) and emits signals in strictly increasing
\* chronological index; each signal carries the date and close of the record
\* at its index and the short and long averages at that index.
C7_ChronologicalSignals ==
    (Done("analyze_buy_sell_signals") /\ Known) =>
        /\ \A k \in 1..Len(result.signals) :
            LET sig == result.signals[k]
            IN  /\ sig.index \in 0..(Len(Data) - 1)
                /\ sig.date = ChronoRow(Data, sig.index).date
                /\ sig.price = ChronoRow(Data, sig.index).close
                /\ RatEq(Val(sig.short_sma), ChronoMean(Data, sig.index, 5))
                /\ RatEq(Val(sig.long_sma), ChronoMean(Data, sig.index, 10))
        /\ \A k \in 1..(Len(result.signals) - 1) :
            result.signals[k].index < result.signals[k + 1].index

\* two signals, on a series whose closes are not symmetric under reversal
C7_Witness ==
    /\ Done("analyze_buy_sell_signals")
    /\ Known
    /\ Len(result.signals) = 2
    /\ ChronoRow(Data, result.signals[1].index).close
          # Data[result.signals[1].index + 1].close

\* C8: whenever signal analysis passes the InsufficientHistory guard, both
\* averages are defined at the final chronological index, the trend is
\* Bullish iff shortSMA[last] > longSMA[last] (equality is Bearish) and
\* gap = shortSMA[last] - longSMA[last].
C8_TrendFromLastIndex ==
    (Done("analyze_buy_sell_signals") /\ Known /\ Len(Data) >= 11) =>
        /\ Len(result.short_sma) = Len(Data)
        /\ Len(result.long_sma) = Len(Data)
        /\ result.short_sma[Len(Data)] # None
        /\ result.long_sma[Len(Data)] # None
        /\ result.status \in {"BULLISH", "BEARISH"}
        /\ result.status = "BULLISH"
              <=> RatLT(ChronoMean(Data, Len(Data) - 1, 10),
                        ChronoMean(Data, Len(Data) - 1, 5))
        /\ result.diff # None
        /\ RatEq(Val(result.diff),
                 RatSub(ChronoMean(Data, Len(Data) - 1, 5),
                        ChronoMean(Data, Len(Data) - 1, 10)))

Window == Min2(10, Len(Data))

Table == Val(result.returned)

\* C9: for every non-empty series the summary uses exactly the first
\* min(10, len) records in stored order: the reported period count is that
\* number, 'current' (To Date, Current Price) is record 0, 'baseline' (From
\* Date) is the record at index min(10, len) - 1, and no record outside the
\* window influences any reported value.
C9_SummaryWindow ==
    (Done("generate_stock_summary") /\ Known /\ Data # <<>>) =>
        /\ result.outcome = "Summary"
        /\ Table.analysis_period = Window
        /\ Table.to_date = Data[1].date
        /\ Table.current_price = Data[1].close
        /\ Table.from_date = Data[Window].date
        /\ result = generate_stock_summary(Loaded(SubSeq(Data, 1, Window)),
                                            call.stock_name)

\* more than ten records, and the eleventh differs from the tenth
C9_Witness ==
    /\ Done("generate_stock_summary")
    /\ Known
    /\ Len(Data) > 10
    /\ Data[11].close # Data[10].close
    /\ result.outcome = "Summary"

\* C10: when current.close and baseline.close are both non-null,
\* priceChange = current.close - baseline.close and percentChange =
\* priceChange / baseline.close * 100, except that percentChange is exactly
\* 0.0 when baseline.close = 0 (priceChange is still the difference); no
\* division by zero occurs for any series.
C10_PriceAndPercentChange ==
    Done("generate_stock_summary") =>
        /\ result.raised = "none"
        /\ (Known /\ Data # <<>> /\ Data[1].close # None
                /\ Data[Window].close # None) =>
            LET current == Val(Data[1].close)
                baseline == Val(Data[Window].close)
            IN  /\ Table.price_change = current - baseline
                /\ baseline # 0 =>
                      /\ result.pct_change.den # 0
                      /\ result.pct_change.num * baseline =
                            (current - baseline) * 100 * result.pct_change.den
                /\ baseline = 0 => result.pct_change = Rat(0, 1)

\* baseline close 0 with a non-zero current close
C10_Witness ==
    /\ Done("generate_stock_summary")
    /\ Known
    /\ Len(Data) >= 2
    /\ Data[Window].close = Some(0)
    /\ Data[1].close \notin {None, Some(0)}
    /\ result.outcome = "Summary"

WindowValues(field) ==
    {Val(Data[k][field]) : k \in {j \in 1..Window : Data[j][field] # None}}

\* C12: highestPrice is the maximum of the non-null highs of the window and
\* lowestPrice the minimum of its non-null lows; each is 0.0 when the window
\* has no non-null value of that field.
C12_HighestAndLowest ==
    (Done("generate_stock_summary") /\ Known /\ Data # <<>>) =>
        /\ IF WindowValues("high") = {} THEN Table.high = 0
           ELSE /\ Table.high \in WindowValues("high")
                /\ \A h \in WindowValues("high") : h <= Table.high
        /\ IF WindowValues("low") = {} THEN Table.low = 0
           ELSE /\ Table.low \in WindowValues("low")
                /\ \A l \in WindowValues("low") : Table.low <= l

\* a null high beside two different highs, and a window without any low
C12_Witness ==
    /\ Done("generate_stock_summary")
    /\ Known
    /\ Cardinality(WindowValues("high")) >= 2
    /\ WindowValues("low") = {}
    /\ result.outcome = "Summary"

WindowVolumes ==
    SelectSeq([k \in 1..Window |-> Data[k].volume], LAMBDA v : v # None)

\* C13 as stated: the average volume of the summary result is the arithmetic
\* mean of the non-null volumes of the window, and 0 when there is none.
C13_AverageVolumeIsMean ==
    (Done("generate_stock_summary") /\ Known /\ Data # <<>>) =>
        IF WindowVolumes = <<>> THEN Table.avg_volume = 0
        ELSE Table.avg_volume * Len(WindowVolumes)
                = SumRange(WindowVolumes, 1, Len(WindowVolumes))

\* C13 amended: the average volume is computed as the arithmetic mean of
\* the non-null volumes of the window (nulls not counted in the divisor),
\* and the summary result carries that mean truncated to an integer; it is
\* 0 when no record of the window has a volume.
C13_AverageVolumeTruncated ==
    (Done("generate_stock_summary") /\ Known /\ Data # <<>>) =>
        IF WindowVolumes = <<>>
        THEN Table.avg_volume = 0 /\ result.avg_volume.num = 0
        ELSE LET total == SumRange(WindowVolumes, 1, Len(WindowVolumes))
                 count == Len(WindowVolumes)
             IN  /\ result.avg_volume.den > 0
                 /\ result.avg_volume.num * count = total * result.avg_volume.den
                 /\ Table.avg_volume * count <= total
                 /\ total < (Table.avg_volume + 1) * count

\* the mean of the volumes is not an integer
C13_Witness ==
    /\ Done("generate_stock_summary")
    /\ Known
    /\ Data # <<>>
    /\ WindowVolumes # <<>>
    /\ SumRange(WindowVolumes, 1, Len(WindowVolumes)) % Len(WindowVolumes) # 0
    /\ result.outcome = "Summary"

\* C14: the summary of a known symbol with zero records fails with
\* EmptySeries and returns no table; the summary of a symbol that is not a
\* key of the registry fails with not-found and returns no table; every
\* non-empty series of a known symbol gets a table.
C14_SummaryOutcomes ==
    Done("generate_stock_summary") =>
        /\ ~Known => (result.outcome = "SymbolNotFound" /\ result.returned = None)
        /\ (Known /\ Data = <<>>) =>
              (result.outcome = "EmptySeries" /\ result.returned = None)
        /\ (Known /\ Data # <<>>) =>
              /\ result.outcome = "Summary"
              /\ result.returned # None
              /\ Table.stock_name = CallKey
              /\ Table.analysis_period >= 1

C14_Witness ==
    /\ Done("generate_stock_summary")
    /\ Known
    /\ Data = <<>>
    /\ result.outcome = "EmptySeries"
    /\ result.returned = None

Target == Strip(call.target_input)

\* C15: the price query trims the target date, compares it exactly (case
\* matters) and decides on the FIRST record in stored order whose date equals
\* it: that record's close if it is non-null, PriceMissing if it is null, and
\* DateNotFound iff no record has the date; the three outcomes are distinct
\* values and later records with the same date are never consulted.
C15_FirstMatchDecides ==
    (Done("get_price_by_date") /\ Known) =>
        IF Matches(Data, Target) = {}
        THEN /\ result.outcome = "DateNotFound"
             /\ result.returned = StrValue(<<"Date not found.">>)
        ELSE LET first == Data[FirstMatch(Data, Target)]
             IN  IF first.close = None
                 THEN /\ result.outcome = "PriceMissing"
                      /\ result.returned.type = "str"
                      /\ result.returned # StrValue(<<"Date not found.">>)
                 ELSE /\ result.outcome = "Price"
                      /\ result.returned = FloatValue(Val(first.close))

\* the date occurs twice; the first record has no close, the later one has
C15_Witness ==
    /\ Done("get_price_by_date")
    /\ Known
    /\ Cardinality(Matches(Data, Target)) >= 2
    /\ Data[FirstMatch(Data, Target)].close = None
    /\ \E k \in Matches(Data, Target) : Data[k].close # None
    /\ call.target_input # Target
    /\ result.outcome = "PriceMissing"

BuyMatches == Matches(Data, Strip(call.buy_input))

SellMatches == Matches(Data, Strip(call.sell_input))

\* C16: when both matched closes are non-null and the buy close is non-zero
\* the performance simulation reports profit = sellPrice - buyPrice,
\* roi = profit / buyPrice * 100 and 'profit' iff profit >= 0, else 'loss';
\* buy close 50 and sell close 60 give 10, 20 and 'profit'.  The matched
\* closes are closes of records carrying the two dates, and where each date
\* names one record the report depends on the two closes only, whichever of
\* the two records is the older.
C16_ProfitRoiStatus ==
    (Done("track_performance") /\ Known) =>
        /\ (/\ result.buy_price # None
            /\ result.sell_price # None
            /\ Val(result.buy_price) # 0) =>
              /\ result.outcome = "Report"
              /\ \E b \in BuyMatches : Data[b].close = result.buy_price
              /\ \E k \in SellMatches : Data[k].close = result.sell_price
              /\ result.profit
                    = Some(Val(result.sell_price) - Val(result.buy_price))
              /\ RatEq(Val(result.roi),
                       Rat(Val(result.profit) * 100, Val(result.buy_price)))
              /\ result.status = "PROFIT" <=> Val(result.profit) >= 0
              /\ result.status = "LOSS" <=> Val(result.profit) < 0
        /\ \A b \in BuyMatches, k \in SellMatches :
              (/\ BuyMatches = {b}
               /\ SellMatches = {k}
               /\ Data[b].close # None
               /\ Data[k].close # None
               /\ Val(Data[b].close) # 0) =>
                  /\ result.outcome = "Report"
                  /\ result.buy_price = Data[b].close
                  /\ result.sell_price = Data[k].close
                  /\ result.profit
                        = Some(Val(Data[k].close) - Val(Data[b].close))
        /\ (/\ result.buy_price = Some(50)
            /\ result.sell_price = Some(60)) =>
              /\ result.profit = Some(10)
              /\ RatEq(Val(result.roi), Rat(20, 1))
              /\ result.status = "PROFIT"

\* the 50/60 trade, reported
C16_Witness ==
    /\ Done("track_performance")
    /\ Known
    /\ Data = TradeSeries
    /\ result.outcome = "Report"
    /\ result.buy_price = Some(50)
    /\ result.sell_price = Some(60)

\* the buy record is the newer one, and the trade loses
C16_WitnessBuyAfterSell ==
    /\ Done("track_performance")
    /\ Known
    /\ \E b \in BuyMatches, k \in SellMatches :
          BuyMatches = {b} /\ SellMatches = {k} /\ b < k
    /\ result.outcome = "Report"
    /\ result.status = "LOSS"

\* buyDate = sellDate: the profit is 0 and the trade counts as a profit
C16_WitnessZeroProfit ==
    /\ Done("track_performance")
    /\ Known
    /\ Strip(call.buy_input) = Strip(call.sell_input)
    /\ result.outcome = "Report"
    /\ result.profit = Some(0)
    /\ result.status = "PROFIT"

QuickKnown == Upper(call.stock_name) \in DOMAIN registry

QuickData == registry[Upper(call.stock_name)]

\* C17 as stated: quick info on an empty series is unavailable; on a series
\* of one record it reports the price and date of record 0 with no change
\* indicator; on every series of two or more records it reports
\* diff = series[0].close - series[1].close, classified Up if diff > 0, Down
\* if diff < 0 and Flat if diff = 0.
C17_QuickInfoChange ==
    (Done("get_quick_info") /\ QuickKnown) =>
        /\ Len(QuickData) = 0 => result.outcome = "NoRows"
        /\ Len(QuickData) = 1 =>
              /\ result.outcome = "Info"
              /\ result.price = QuickData[1].close
              /\ result.date = Some(QuickData[1].date)
              /\ result.change = "none"
        /\ Len(QuickData) >= 2 =>
              /\ result.outcome = "Info"
              /\ result.diff # None
              /\ QuickData[1].close # None
              /\ QuickData[2].close # None
              /\ Val(result.diff)
                    = Val(QuickData[1].close) - Val(QuickData[2].close)
              /\ result.change = "UP" <=> Val(result.diff) > 0
              /\ result.change = "DOWN" <=> Val(result.diff) < 0
              /\ result.change = "FLAT" <=> Val(result.diff) = 0

\* C17 amended: as stated where the closes are present; a null close of
\* record 0 gives a price-missing line with neither price nor indicator, and
\* a null close of record 1 gives the price and date of record 0 with no
\* change indicator.
C17_QuickInfoWithNulls ==
    (Done("get_quick_info") /\ QuickKnown) =>
        IF Len(QuickData) = 0 THEN result.outcome = "NoRows"
        ELSE IF QuickData[1].close = None
        THEN /\ result.outcome = "PriceMissing"
             /\ result.price = None
             /\ result.change = "none"
        ELSE /\ result.outcome = "Info"
             /\ result.price = QuickData[1].close
             /\ result.date = Some(QuickData[1].date)
             /\ IF Len(QuickData) >= 2 /\ QuickData[2].close # None
                THEN /\ result.diff = Some(Val(QuickData[1].close)
                                             - Val(QuickData[2].close))
                     /\ result.change = "UP" <=> Val(result.diff) > 0
                     /\ result.change = "DOWN" <=> Val(result.diff) < 0
                     /\ result.change = "FLAT" <=> Val(result.diff) = 0
                ELSE /\ result.diff = None
                     /\ result.change = "none"

\* two or more records, the previous close is missing: no indicator
C17_Witness ==
    /\ Done("get_quick_info")
    /\ QuickKnown
    /\ Len(QuickData) >= 2
    /\ QuickData[1].close # None
    /\ QuickData[2].close = None
    /\ result.outcome = "Info"
    /\ result.change = "none"

\* two records with equal closes: FLAT
C17_WitnessFlat ==
    /\ Done("get_quick_info")
    /\ QuickKnown
    /\ Len(QuickData) >= 2
    /\ result.change = "FLAT"

\* C18: no engine call (summary, signal analysis, price query, performance
\* simulation, quick info), whatever its input and outcome, changes the
\* registry: the keys, the length and order of every series and every field
\* of every record are the same after the call as before it.
C18_EnginesLeaveRegistry ==
    [][(pc = "menu" /\ pc' = "done") =>
          /\ DOMAIN registry' = DOMAIN registry
          /\ \A k \in DOMAIN registry :
                /\ Len(registry'[k]) = Len(registry[k])
                /\ \A i \in 1..Len(registry[k]) :
                      registry'[k][i] = registry[k][i]
          /\ registry' = registry]_vars

\* a signal analysis that ended in an exception, on a stored series whose
\* reversal differs from it
C18_Witness ==
    /\ Done("analyze_buy_sell_signals")
    /\ Known
    /\ result.raised # "none"
    /\ Reverse(Data) # Data

\* a signal analysis that scanned the reversed series to the end
C18_WitnessAnalysed ==
    /\ Done("analyze_buy_sell_signals")
    /\ Known
    /\ result.outcome = "Report"
    /\ Reverse(Data) # Data

AddedKey == Upper(Strip(call'.stock_name))

\* C19: after any sequence of add_stock_to_registry calls every key is the
\* trimmed, uppercased symbol and maps to a list; a call removes no key; with
\* replace = True the key maps to exactly the supplied series and every other
\* key is unchanged; with replace = False on an existing key the whole
\* registry is unchanged.
C19_RegistryDiscipline ==
    /\ [](\A k \in DOMAIN registry :
            /\ k = Upper(Strip(k))
            /\ \E name \in RegNames : k = Upper(Strip(name))
            /\ registry[k] \in Seq(RegRows))
    /\ [][call'.engine = "add_stock_to_registry" =>
            /\ DOMAIN registry \subseteq DOMAIN registry'
            /\ DOMAIN registry' = DOMAIN registry \cup {AddedKey}
            /\ call'.replace =>
                  /\ registry'[AddedKey] = call'.data
                  /\ \A k \in DOMAIN registry \ {AddedKey} :
                        registry'[k] = registry[k]
            /\ (~call'.replace /\ AddedKey \in DOMAIN registry) =>
                  registry' = registry
            /\ AddedKey \notin DOMAIN registry =>
                  registry'[AddedKey] = call'.data]_vars

\* two keys are stored and the last call, with replace = False and a padded
\* lower-case name, left the existing series in place
C19_Witness ==
    /\ call.engine = "add_stock_to_registry"
    /\ DOMAIN registry = {<<"A">>, <<"B">>}
    /\ ~call.replace
    /\ call.stock_name # Upper(Strip(call.stock_name))
    /\ registry[Upper(Strip(call.stock_name))] # call.data

\* the last call replaced with an empty series: the key stays, mapped to the
\* empty list
C19_WitnessEmptySeries ==
    /\ call.engine = "add_stock_to_registry"
    /\ call.replace
    /\ call.data = <<>>
    /\ Upper(Strip(call.stock_name)) \in DOMAIN registry
    /\ registry[Upper(Strip(call.stock_name))] = <<>>

\* the date cell of a source row, None when the row has no such cell
SourceDate(file, i) ==
    LET col == CHOOSE c \in 1..Len(file.header) :
                   Lower(Strip(file.header[c]))
                       \in {<<"d", "a", "t", "e">>,
                            <<"t", "i", "m", "e", "s", "t", "a", "m", "p">>}
    IN  IF col <= Len(file.rows[i]) THEN Some(file.rows[i][col]) ELSE None

\* the source rows whose date is present and not blank
DatedRows(file) ==
    {i \in 1..Len(file.rows) :
        /\ SourceDate(file, i) # None
        /\ Strip(Val(SourceDate(file, i))) # <<>>}

\* the j-th smallest element of a set of indices
Nth(set, j) == CHOOSE i \in set : Cardinality({m \in set : m <= i}) = j

\* C20: every record the loader produces and the registry stores has a
\* non-empty date: source rows whose date is missing, empty or whitespace-only
\* are skipped, and the other rows are kept in the order of the source file.
C20_StoredDatesNonEmpty ==
    /\ \A k \in DOMAIN registry : \A i \in 1..Len(registry[k]) :
          /\ registry[k][i].date # <<>>
          /\ Strip(registry[k][i].date) # <<>>
    /\ (Done("read_csv_to_list_of_dicts") /\ result.outcome = "Returned") =>
          LET stored == registry[call.stock_name]
              dated == DatedRows(call.file)
          IN  /\ Len(stored) = Cardinality(dated)
              /\ \A j \in 1..Len(stored) :
                    stored[j].date
                        = Strip(Val(SourceDate(call.file, Nth(dated, j))))

\* three source rows: the first and the third are stored, in that order, the
\* second has a whitespace-only date and is skipped
C20_Witness ==
    /\ Done("read_csv_to_list_of_dicts")
    /\ result.outcome = "Returned"
    /\ Len(call.file.rows) = 3
    /\ DatedRows(call.file) = {1, 3}
    /\ SourceDate(call.file, 2) = Some(<<" ">>)
    /\ Len(registry[call.stock_name]) = 2
    /\ registry[call.stock_name][1].date = <<"1">>
    /\ registry[call.stock_name][2].date = <<"2">>

\* a short row under a header whose date column comes second: no date cell
C20_WitnessMissingDate ==
    /\ Done("read_csv_to_list_of_dicts")
    /\ result.outcome = "Returned"
    /\ \E i \in 1..Len(call.file.rows) :
          call.file.rows[i] # <<>> /\ SourceDate(call.file, i) = None
    /\ registry[call.stock_name] # <<>>

MenuChoice == Strip(call.input)

\* C21: each choice the prompt advertises (1-9) is accepted and runs the
\* action its printed menu line names: 5 the summary, 6 My Watchlist, 7 the
\* Strategy Advisor, 8 the Portfolio Performance Tracker, and 9 ends the loop.
C21_MenuDoesWhatItPrints ==
    result.engine = "main_menu" =>
        /\ MenuLabel(MenuChoice) # "invalid" =>
              /\ result.outcome # "invalid"
              /\ result.outcome = MenuLabel(MenuChoice)
        /\ MenuLabel(MenuChoice) = "exit" => pc = "exited"

UploadKey(path) == Upper(Strip(path.stem))

\* the path on which the upload reaches registry[key] = rows
UploadSucceeds ==
    /\ ~call'.path.cancel
    /\ ValidPath(call'.path)
    /\ pc = "upload_stock_action" => UploadKey(call'.path) \notin DOMAIN registry
    /\ pc = "upload_prompt" => call'.answer \in {<<"r">>, <<"R">>}
    /\ call'.copied
    /\ read_csv_to_list_of_dicts(call'.path.file).raised = "none"

\* C22: upload_stock_action changes the registry only when validation
\* succeeded, the user did not cancel, answered Replace for a loaded symbol,
\* the copy succeeded and the file parsed; on every other path the registry
\* is unchanged, and an invalid answer to the prompt asks again.
C22_UploadWritesOnSuccessOnly ==
    [][(pc = "upload_stock_action" \/ pc = "upload_prompt") =>
          /\ registry' # registry => UploadSucceeds
          /\ ~UploadSucceeds => registry' = registry
          /\ UploadSucceeds =>
                /\ result'.outcome = "Uploaded"
                /\ DOMAIN registry'
                      = DOMAIN registry \cup {UploadKey(call'.path)}
                /\ registry'[UploadKey(call'.path)]
                      = read_csv_to_list_of_dicts(call'.path.file).rows
                /\ \A k \in DOMAIN registry \ {UploadKey(call'.path)} :
                      registry'[k] = registry[k]
          /\ (/\ pc = "upload_prompt"
              /\ call'.answer \notin {<<"r">>, <<"R">>, <<"k">>, <<"c">>}) =>
                /\ pc' = "upload_prompt"
                /\ registry' = registry]_vars

\* the user answered R for a loaded symbol and its series was replaced by the
\* rows of the uploaded file
C22_Witness ==
    /\ result.engine = "upload_stock_action"
    /\ result.outcome = "Uploaded"
    /\ call.answer = <<"R">>
    /\ call.path.stem = <<" ", "a">>
    /\ registry[<<"A">>] = read_csv_to_list_of_dicts(call.path.file).rows
    /\ registry[<<"A">>] # <<>>

\* validation passed, the copy succeeded and parsing raised
C22_WitnessParseError ==
    /\ result.engine = "upload_stock_action"
    /\ result.outcome = "ParseError"
    /\ call.copied
    /\ ValidPath(call.path)

\* the prompt was answered with something else and is asked again
C22_WitnessAskedAgain ==
    /\ result.engine = "upload_stock_action"
    /\ result.outcome = "InvalidAnswer"
    /\ pc = "upload_prompt"

NoDuplicates(list) == \A i, j \in 1..Len(list) : i # j => list[i] # list[j]

TypedName == Upper(Strip(call'.typed))

TypedChoice == Lower(Strip(call'.input))

\* C23: from a watchlist without duplicates, the saved watchlist never holds
\* a symbol twice; Add appends a symbol only if it is a key of the registry
\* and not yet listed, Remove deletes it only if it is listed, and every
\* rejected Add or Remove, like every other choice, leaves the saved
\* watchlist as it was.
C23_WatchlistDiscipline ==
    /\ [](NoDuplicates(watchlist))
    /\ [][(pc = "manage_watchlist") =>
            /\ watchlist' # watchlist =>
                  \/ /\ TypedChoice = <<"a">>
                     /\ TypedName \in DOMAIN registry
                     /\ ~InList(watchlist, TypedName)
                     /\ watchlist' = Append(watchlist, TypedName)
                  \/ /\ TypedChoice = <<"r">>
                     /\ InList(watchlist, TypedName)
                     /\ watchlist'
                           = SelectSeq(watchlist, LAMBDA x : x # TypedName)
            /\ (/\ TypedChoice = <<"a">>
                /\ TypedName \in DOMAIN registry
                /\ ~InList(watchlist, TypedName)) =>
                  watchlist' = Append(watchlist, TypedName)
            /\ (TypedChoice = <<"r">> /\ InList(watchlist, TypedName)) =>
                  /\ ~InList(watchlist', TypedName)
                  /\ Len(watchlist') = Len(watchlist) - 1
            /\ result'.outcome \in {"NotLoaded", "AlreadyListed",
                                    "NotInWatchlist", "InvalidChoice", "Back"}
                  => watchlist' = watchlist]_vars

\* an Add of a loaded symbol that is already listed was rejected
C23_Witness ==
    /\ result.engine = "manage_watchlist"
    /\ result.outcome = "AlreadyListed"
    /\ Lower(Strip(call.input)) = <<"a">>
    /\ Upper(Strip(call.typed)) \in DOMAIN registry
    /\ InList(watchlist, Upper(Strip(call.typed)))
    /\ Len(watchlist) >= 2

\* an Add went through, typed in lower case with a leading blank
C23_WitnessAdded ==
    /\ result.engine = "manage_watchlist"
    /\ result.outcome = "Added"
    /\ call.typed = <<" ", "a">>
    /\ watchlist[Len(watchlist)] = <<"A">>

\* a Remove went through
C23_WitnessRemoved ==
    /\ result.engine = "manage_watchlist"
    /\ result.outcome = "Removed"
    /\ ~InList(watchlist, Upper(Strip(call.typed)))

LastIndex == Len(Data) - 1

\* the two averages are exactly equal at chronological index i
AveragesEqualAt(i) == RatEq(ChronoMean(Data, i, 5), ChronoMean(Data, i, 10))

NeverEqual == \A i \in 9..LastIndex : ~AveragesEqualAt(i)

\* C24: on a series of at least 11 records with non-null closes whose short
\* and long averages are never exactly equal from index 9 to the last index,
\* the emitted signals strictly alternate between Buy and Sell; a signal at
\* the final index comes with the trend Bullish if it is a Buy and Bearish if
\* it is a Sell; and two consecutive signals of the same kind occur only with
\* the averages exactly equal at some index between them.
C24_SignalsAlternate ==
    (/\ Done("analyze_buy_sell_signals")
     /\ Known
     /\ Len(Data) >= 11
     /\ \A k \in 1..Len(Data) : Data[k].close # None) =>
        /\ result.outcome = "Report"
        /\ NeverEqual =>
              \A k \in 1..(Len(result.signals) - 1) :
                  result.signals[k].kind # result.signals[k + 1].kind
        /\ \A k \in 1..Len(result.signals) :
              result.signals[k].index = LastIndex =>
                  /\ result.signals[k].kind = "BUY"
                        => result.status = "BULLISH"
                  /\ result.signals[k].kind = "SELL"
                        => result.status = "BEARISH"
        /\ \A k \in 1..(Len(result.signals) - 1) :
              result.signals[k].kind = result.signals[k + 1].kind =>
                  \E m \in 9..LastIndex :
                      /\ result.signals[k].index < m
                      /\ m < result.signals[k + 1].index
                      /\ AveragesEqualAt(m)

\* the averages never meet, three signals alternate and the last one is a
\* Sell at the final index
C24_Witness ==
    /\ Done("analyze_buy_sell_signals")
    /\ Known
    /\ NeverEqual
    /\ Len(result.signals) = 3
    /\ result.signals[1].kind = "SELL"
    /\ result.signals[2].kind = "BUY"
    /\ result.signals[3].kind = "SELL"
    /\ result.signals[3].index = LastIndex
    /\ result.status = "BEARISH"

\* two Buys in a row, the averages equal on the day between them
C24_WitnessRepeated ==
    /\ Done("analyze_buy_sell_signals")
    /\ Known
    /\ Len(result.signals) = 2
    /\ result.signals[1].kind = "BUY"
    /\ result.signals[2].kind = "BUY"
    /\ AveragesEqualAt(result.signals[1].index + 1)

====
